---- MODULE Spec2Model ----
(***************************************************************************)
(* Rolling population standard deviation of bid/mid/ask prices per         *)
(* security over windows of contiguous hourly snaps.                       *)
(*                                                                         *)
(*   IncrementalStdevCalculator   stdev_test/scripts/stdev_solution_a.py   *)
(*   RollingStdevCalculator       stdev_test/scripts/stdev_solution.py     *)
(*   RollingStdevCalculator       stdev_test/scripts/stdev_solution_b.py   *)
(*                                                                         *)
(* Time is counted in hours (the period of the contiguity rule is one      *)
(* hour, pd.Timedelta(hours=1)).  Prices are integers, on which the        *)
(* float64 sums and sums of squares of the code are exact; the rounding    *)
(* of the sums on other values is modelled apart (SpecFloat).  A standard  *)
(* deviation is carried as the variance under the square root, an exact    *)
(* fraction <<numerator, denominator>> in lowest terms: np.sqrt is         *)
(* injective on the non-negative numbers, so two standard deviations are   *)
(* equal exactly when these fractions are.  A missing value (None, NaN) is *)
(* the empty tuple.                                                        *)
(***************************************************************************)
EXTENDS Integers, Sequences, FiniteSets, TLC

VARIABLES
    price_files,        \* price_path -> the rows of the parquet file there
    state_file,         \* the JSON snapshot at state_path, or NoFile
    window_size,        \* self.window_size
    pc,                 \* "new": no engine has loaded yet; "loaded": load_data has run;
                        \* "raised": load_data has raised
    price_path,         \* self.price_path of the current engine
    df,                 \* self.df
    calculation_state,  \* self.calculation_state
    result,             \* what the last process(start, end) returned
    last_call,          \* the last direct call of _update_state: its arguments,
                        \* the state of its key before it, what it returned
    input_hours,        \* the hours the callers take start and end from
    file_src,           \* history: the run that wrote state_file
    state_src,          \* history: the run that left calculation_state
    rates_files,        \* the files at ccy_path, price_path and spot_path of a
                        \* RatesPriceConverter
    converter,          \* its fields ccy_df, price_df and spot_df
    converted           \* what its last process() returned

vars == <<price_files, state_file, window_size, pc, price_path, df,
          calculation_state, result, last_call, input_hours, file_src, state_src,
          rates_files, converter, converted>>

rates_vars == <<rates_files, converter, converted>>

stdev_vars == <<price_files, state_file, window_size, pc, price_path, df,
                calculation_state, result, last_call, input_hours, file_src,
                state_src>>

----------------------------------------------------------------------------
(* Bounds of the model *)

\* the recent hours are LookbackHours .. LookbackHours + MaxHour
MaxHour == 3
\* window sizes 2 .. MaxWindow are tried
MaxWindow == 3
\* the significand bits of the binary floating-point format the sums are
\* modelled in where rounding matters (float64 has 53)
Precision == 5

(* Program constants *)

\* pd.Timedelta(days=7), in hours
LookbackHours == 168
\* rolling(window=20, min_periods=20) of stdev_solution_b.py
AsofWindow == 20
\* tolerance=pd.Timedelta(days=7) of merge_asof, in hours
AsofToleranceHours == 168

----------------------------------------------------------------------------
(* Values *)

None == <<>>
Some(x) == <<x>>

Entities == {"A", "B"}
\* the security ids in the order sort_values / groupby put them
EntityOrder == <<"A", "B">>
PriceTypes == <<"bid", "mid", "ask">>

OldHours == {0, 1}
RecentHours == LookbackHours .. (LookbackHours + MaxHour)

Quote(b, m, a) == [bid |-> b, mid |-> m, ask |-> a]
Prices == {Quote(9, 10, 11), Quote(9, 13, 17)}

Max(a, b) == IF a >= b THEN a ELSE b

\* the element of a set of one element; in The({f(x) : x \in {e}}) the
\* value e is computed once, before f is
The(S) == CHOOSE y \in S : TRUE

RECURSIVE GCD(_, _)
GCD(a, b) == IF b = 0 THEN a ELSE GCD(b, a % b)

\* the exact value n/d (n >= 0, d > 0) in lowest terms
Frac(n, d) == LET g == GCD(n, d) IN <<n \div g, d \div g>>

RECURSIVE SumSeq(_)
SumSeq(s) == IF s = <<>> THEN 0 ELSE Head(s) + SumSeq(Tail(s))

SetMin(S) == CHOOSE x \in S : \A y \in S : x <= y

\* the elements of a set of hours in ascending order
RECURSIVE SortedSeq(_)
SortedSeq(S) ==
    IF S = {} THEN <<>>
    ELSE LET m == SetMin(S) IN <<m>> \o SortedSeq(S \ {m})

----------------------------------------------------------------------------
(* IncrementalStdevCalculator: the per-key state and _update_state *)

\* mutant of _get_state_key: the key names the price type alone
KeyOfPriceType(security_id, price_type) == price_type

_get_state_key(security_id, price_type) == security_id \o "_" \o price_type

\* the state created for a key on its first sample
InitialState ==
    [values |-> <<>>, timestamps |-> <<>>, sum |-> 0, sum_sq |-> 0,
     last_timestamp |-> None]

\* a mutation of IsGap: only a later timestamp is a gap, an equal or an
\* earlier one is not
IsLaterGap(state, ts) ==
    /\ state.last_timestamp # None
    /\ ts > state.last_timestamp[1] + 1

\* the gap test: a previous sample exists and ts is not one hour after it
IsGap(state, ts) ==
    /\ state.last_timestamp # None
    /\ ts # state.last_timestamp[1] + 1

\* a mutation of ResetOnGap: the window is cleared, the sums are kept
ResetWindowOnly(state) ==
    [state EXCEPT !.values = <<>>, !.timestamps = <<>>]

\* "Reset state on gap": last_timestamp is kept
ResetOnGap(state) ==
    [state EXCEPT !.values = <<>>, !.timestamps = <<>>, !.sum = 0, !.sum_sq = 0]

\* "Update running sums"
Push(state, value, ts) ==
    [values         |-> Append(state.values, value),
     timestamps     |-> Append(state.timestamps, ts),
     sum            |-> state.sum + value,
     sum_sq         |-> state.sum_sq + value * value,
     last_timestamp |-> Some(ts)]

\* mutant of EvictOldest: pop() for pop(0), the newest sample is removed
EvictNewest(state, W) ==
    IF Len(state.values) > W
    THEN LET n == Len(state.values)
             old_value == state.values[n]
         IN  [state EXCEPT !.values = SubSeq(state.values, 1, n - 1),
                           !.timestamps = SubSeq(state.timestamps, 1, n - 1),
                           !.sum = state.sum - old_value,
                           !.sum_sq = state.sum_sq - old_value * old_value]
    ELSE state

\* "Remove oldest value if window is full"
EvictOldest(state, W) ==
    IF Len(state.values) > W
    THEN LET old_value == Head(state.values)
         IN  [state EXCEPT !.values = Tail(state.values),
                           !.timestamps = Tail(state.timestamps),
                           !.sum = state.sum - old_value,
                           !.sum_sq = state.sum_sq - old_value * old_value]
    ELSE state

\* max(0, sum_sq / W - (sum / W)**2), the variance np.sqrt is applied to
Variance(state, W) ==
    Frac(Max(0, state.sum_sq * W - state.sum * state.sum), W * W)

\* a mutation of WindowStdev: no statistic for a full window of one value
StdevIfVaries(state, W) ==
    IF Len(state.values) = W /\ state.sum_sq * W # state.sum * state.sum
    THEN Variance(state, W)
    ELSE None

\* "Calculate stdev if we have a full window", else None
WindowStdev(state, W) ==
    IF Len(state.values) = W THEN Variance(state, W) ELSE None

\* the new state of the key and the stdev of the sample just folded in
StepResult(state, W) == [state |-> state, stdev |-> WindowStdev(state, W)]

\* a mutation of BeforePush: no reset on a gap
NoReset(state, ts) == state

\* the state before the push: reset when the sample follows a gap
BeforePush(state, ts) == IF IsGap(state, ts) THEN ResetOnGap(state) ELSE state

\* one iteration of the loop of _update_state
UpdateStep(state, W, value, ts) ==
    StepResult(EvictOldest(Push(BeforePush(state, ts), value, ts), W), W)

\* "for value, ts in zip(values, timestamps)": stdevs is the list the loop
\* appends to
RECURSIVE UpdateLoop(_, _, _, _, _)
UpdateLoop(state, W, values, timestamps, stdevs) ==
    IF values = <<>> \/ timestamps = <<>>
    THEN [state |-> state, stdevs |-> stdevs]
    ELSE The({UpdateLoop(one.state, W, Tail(values), Tail(timestamps),
                         Append(stdevs, one.stdev)) :
                 one \in {UpdateStep(state, W, Head(values), Head(timestamps))}})

\* "if key not in self.calculation_state": the state of the key, created
\* when absent
StateOf(cs, key) == IF key \in DOMAIN cs THEN cs[key] ELSE InitialState

\* the dictionary with the key's state after the loop, and "return stdevs"
StoreState(cs, key, out) ==
    [calculation_state |->
        [k \in DOMAIN cs \cup {key} |-> IF k = key THEN out.state ELSE cs[k]],
     stdevs |-> out.stdevs]

UpdateKey(cs, W, key, values, timestamps) ==
    StoreState(cs, key, UpdateLoop(StateOf(cs, key), W, values, timestamps, <<>>))

\* _update_state: the state of the key is created when absent, then the
\* samples are folded into it; returns the new dictionary and the stdevs
_update_state(cs, W, security_id, price_type, values, timestamps) ==
    UpdateKey(cs, W, _get_state_key(security_id, price_type), values, timestamps)

----------------------------------------------------------------------------
(* IncrementalStdevCalculator.process *)

\* mutant of ProcessingRows: the rows are filtered from start, not from
\* the lookback start
ProcessingRowsFromStart(data, security_id, start) ==
    SortedSeq({h \in DOMAIN data[security_id] : h >= start})

\* the timestamps of a security's rows kept by
\* self.df[self.df['timestamp'] >= lookback_start], ascending
ProcessingRows(data, security_id, start) ==
    SortedSeq({h \in DOMAIN data[security_id] : h >= start - LookbackHours})

\* the keys of processing_df.groupby('security_id'), in order
GroupKeys(data, start) ==
    SelectSeq(EntityOrder, LAMBDA e : ProcessingRows(data, e, start) # <<>>)

Column(data, security_id, timestamps, price_type) ==
    [i \in 1..Len(timestamps) |-> data[security_id][timestamps[i]][price_type]]

\* mutant of InRange: the upper bound is not tested
InRangeNoEnd(ts, start, end) == ts >= start

\* "Only include results in the requested time range"
InRange(ts, start, end) == ts >= start /\ ts <= end

ResultRow(security_id, ts, bid_stdev, mid_stdev, ask_stdev) ==
    [security_id |-> security_id, timestamp |-> ts,
     bid_stdev |-> bid_stdev, mid_stdev |-> mid_stdev, ask_stdev |-> ask_stdev]

\* "Compile results for this security": rows is the list appended to
RECURSIVE CompileResults(_, _, _, _, _, _, _, _)
CompileResults(security_id, timestamps, bid, mid, ask, start, end, rows) ==
    IF timestamps = <<>> \/ bid = <<>> \/ mid = <<>> \/ ask = <<>> THEN rows
    ELSE CompileResults(security_id, Tail(timestamps), Tail(bid), Tail(mid),
                        Tail(ask), start, end,
                        IF InRange(Head(timestamps), start, end)
                        THEN Append(rows, ResultRow(security_id, Head(timestamps),
                                                    Head(bid), Head(mid), Head(ask)))
                        ELSE rows)

\* "Update state and get stdevs for each price type": the three calls of
\* _update_state, bid then mid then ask, each on the dictionary the call
\* before it left; stdevs maps the price types done to their stdevs
RECURSIVE UpdateColumns(_, _, _, _, _, _, _)
UpdateColumns(cs, W, data, security_id, ts, price_types, stdevs) ==
    IF price_types = <<>> THEN [calculation_state |-> cs, stdevs |-> stdevs]
    ELSE The({UpdateColumns(out.calculation_state, W, data, security_id, ts,
                            Tail(price_types),
                            stdevs @@ (Head(price_types) :> out.stdevs)) :
                 out \in {_update_state(cs, W, security_id, Head(price_types),
                                        Column(data, security_id, ts,
                                               Head(price_types)), ts)}})

\* the rows of the group, compiled from the three lists of stdevs
GroupResults(security_id, ts, out, start, end) ==
    [calculation_state |-> out.calculation_state,
     results |-> CompileResults(security_id, ts, out.stdevs["bid"],
                                out.stdevs["mid"], out.stdevs["ask"],
                                start, end, <<>>)]

ProcessRows(cs, W, data, security_id, ts, start, end) ==
    GroupResults(security_id, ts,
                 UpdateColumns(cs, W, data, security_id, ts, PriceTypes, <<>>),
                 start, end)

\* the body of "for security_id, group in processing_df.groupby(...)"
ProcessGroup(cs, W, data, security_id, start, end) ==
    ProcessRows(cs, W, data, security_id,
                ProcessingRows(data, security_id, start), start, end)

\* the loop over the groups: results is the list the groups extend
RECURSIVE ProcessGroups(_, _, _, _, _, _, _)
ProcessGroups(cs, W, data, keys, start, end, results) ==
    IF keys = <<>> THEN [calculation_state |-> cs, results |-> results]
    ELSE The({ProcessGroups(one.calculation_state, W, data, Tail(keys),
                            start, end, results \o one.results) :
                 one \in {ProcessGroup(cs, W, data, Head(keys), start, end)}})

EntityRank(e) == CHOOSE i \in 1..Len(EntityOrder) : EntityOrder[i] = e

RowBefore(r1, r2) ==
    \/ EntityRank(r1.security_id) < EntityRank(r2.security_id)
    \/ /\ r1.security_id = r2.security_id
       /\ r1.timestamp <= r2.timestamp

RECURSIVE InsertRow(_, _)
InsertRow(row, sorted) ==
    IF sorted = <<>> THEN <<row>>
    ELSE IF RowBefore(row, Head(sorted)) THEN <<row>> \o sorted
    ELSE <<Head(sorted)>> \o InsertRow(row, Tail(sorted))

\* sort_values(['security_id', 'timestamp'])
RECURSIVE SortValues(_)
SortValues(rows) ==
    IF rows = <<>> THEN <<>>
    ELSE InsertRow(rows[Len(rows)], SortValues(SubSeq(rows, 1, Len(rows) - 1)))

\* what process returns: the sorted frame; a frame built from no rows has no
\* columns, and sort_values raises KeyError on it
Returned(start, end, rows) ==
    [start |-> start, end |-> end,
     status |-> IF rows = <<>> THEN "KeyError" ELSE "ok",
     records |-> SortValues(rows)]

NoResult ==
    [start |-> 0, end |-> 0, status |-> "none", records |-> <<>>]

\* the state process leaves and the frame it returns
Finish(run, start, end) ==
    [calculation_state |-> run.calculation_state,
     returned |-> Returned(start, end, run.results)]

\* the whole of process but the writing of the snapshot
IncrementalProcess(cs, W, data, start, end) ==
    Finish(ProcessGroups(cs, W, data, GroupKeys(data, start), start, end, <<>>),
           start, end)

----------------------------------------------------------------------------
(* The snapshot: json.dump in process, json.load in load_data *)

\* pd.Timestamp(ts).isoformat() and its inverse pd.Timestamp(text)
IsoFormat(ts) == [iso |-> ts]
ParseTimestamp(text) == text.iso
JsonNull == [null |-> TRUE]

SerializeState(state) ==
    [values         |-> state.values,
     timestamps     |-> [i \in 1..Len(state.timestamps) |->
                            IsoFormat(state.timestamps[i])],
     sum            |-> state.sum,
     sum_sq         |-> state.sum_sq,
     last_timestamp |-> IF state.last_timestamp # None
                        THEN IsoFormat(state.last_timestamp[1])
                        ELSE JsonNull]

Serialize(cs) == [k \in DOMAIN cs |-> SerializeState(cs[k])]

DeserializeState(entry) ==
    [values         |-> entry.values,
     timestamps     |-> [i \in 1..Len(entry.timestamps) |->
                            ParseTimestamp(entry.timestamps[i])],
     sum            |-> entry.sum,
     sum_sq         |-> entry.sum_sq,
     last_timestamp |-> IF entry.last_timestamp # JsonNull
                        THEN Some(ParseTimestamp(entry.last_timestamp))
                        ELSE None]

\* the keys a state dictionary can hold, in the order process inserts them
\* and json keeps them
AllKeys ==
    [n \in 1..(Len(EntityOrder) * Len(PriceTypes)) |->
        _get_state_key(EntityOrder[((n - 1) \div Len(PriceTypes)) + 1],
                       PriceTypes[((n - 1) % Len(PriceTypes)) + 1])]

KeyOrder(loaded_state) ==
    SelectSeq(AllKeys, LAMBDA k : k \in DOMAIN loaded_state)

\* the fields load_data reads from an entry; state[field] raises KeyError
\* when the entry lacks it
Fields == {"values", "timestamps", "sum", "sum_sq", "last_timestamp"}
Complete(entry) == Fields \subseteq DOMAIN entry

\* "for key, state in loaded_state.items()": the entries converted, which
\* are those before the first entry that raises
Deserialize(loaded_state) ==
    LET keys == KeyOrder(loaded_state)
        done == {i \in 1..Len(keys) :
                    \A j \in 1..i : Complete(loaded_state[keys[j]])}
    IN  [k \in {keys[i] : i \in done} |-> DeserializeState(loaded_state[k])]

\* the state file: absent, or a file that open() can read or not
\* (IOError), whose text json.load can parse into a value or not
\* (json.JSONDecodeError)
NoFile == None
Written(value) == [readable |-> TRUE, json |-> Some(value)]
Parseable(file) == file[1].readable /\ file[1].json # None

\* load_data raises: the only exceptions caught are json.JSONDecodeError
\* and IOError, the KeyError of an entry that lacks a field is not
LoadRaises(file) ==
    /\ file # NoFile
    /\ Parseable(file)
    /\ \E k \in DOMAIN file[1].json[1] : ~Complete(file[1].json[1][k])

\* mutant of LoadedState: the snapshot is never read, every engine starts cold
NeverLoaded(file) == <<>>

\* the calculation state load_data leaves: the snapshot's when the file
\* exists and is read and parsed, else _initialize_state
LoadedState(file) ==
    IF file # NoFile /\ Parseable(file) THEN Deserialize(file[1].json[1]) ELSE <<>>

----------------------------------------------------------------------------
(* The reference engines.  Their frames name the columns snap_time /      *)
(* stdev_bid ...; the rows are given here under the names of the          *)
(* incremental engine, as the tests rename them before comparing.         *)

\* Series.rolling(window, min_periods=window).std(ddof) at one full window:
\* sum((x - mean)^2) / (n - ddof), with n = Len(window_values)
RollingVar(window_values, ddof) ==
    LET n == Len(window_values)
        S == SumSeq(window_values)
        dev == [i \in 1..n |-> (n * window_values[i] - S) * (n * window_values[i] - S)]
    IN  Frac(SumSeq(dev), n * n * (n - ddof))

\* the value of the rolling statistic at position i of a sequence of rows
RollingAt(data, security_id, timestamps, i, window, ddof, price_type) ==
    IF i < window THEN None
    ELSE RollingVar(Column(data, security_id,
                           SubSeq(timestamps, i - window + 1, i), price_type), ddof)

(* stdev_solution.py: RollingStdevCalculator.process(start, end, window) *)

\* the snap times of a security in working_df
WorkingRows(data, security_id, start, end) ==
    {h \in DOMAIN data[security_id] : h >= start - LookbackHours /\ h <= end}

\* merged['gap'].cumsum() at a row of the security: the hours missing from
\* the continuous hour range up to it
GapGroup(rows, h) == Cardinality({g \in SetMin(rows)..h : g \notin rows})

\* valid_data.groupby('gap_group'): the contiguous sequences, in order
ContiguousSequences(rows) ==
    LET groups == SortedSeq({GapGroup(rows, h) : h \in rows})
    IN  [i \in 1..Len(groups) |->
            SortedSeq({h \in rows : GapGroup(rows, h) = groups[i]})]

\* the result_rows of one sequence: in range, NaN rows dropped
RECURSIVE SequenceRowsFrom(_, _, _, _, _, _, _)
SequenceRowsFrom(data, security_id, sequence, i, window, start, end) ==
    IF i > Len(sequence) THEN <<>>
    ELSE LET rest == SequenceRowsFrom(data, security_id, sequence, i + 1,
                                      window, start, end)
             row  == ResultRow(security_id, sequence[i],
                        RollingAt(data, security_id, sequence, i, window, 0, "bid"),
                        RollingAt(data, security_id, sequence, i, window, 0, "mid"),
                        RollingAt(data, security_id, sequence, i, window, 0, "ask"))
         IN  IF /\ InRange(sequence[i], start, end)
                /\ row.bid_stdev # None /\ row.mid_stdev # None
                /\ row.ask_stdev # None
             THEN <<row>> \o rest
             ELSE rest

SequenceRows(data, security_id, sequence, window, start, end) ==
    IF Len(sequence) < window THEN <<>>
    ELSE SequenceRowsFrom(data, security_id, sequence, 1, window, start, end)

RECURSIVE RollingSequences(_, _, _, _, _, _)
RollingSequences(data, security_id, sequences, window, start, end) ==
    IF sequences = <<>> THEN <<>>
    ELSE SequenceRows(data, security_id, Head(sequences), window, start, end)
         \o RollingSequences(data, security_id, Tail(sequences), window, start, end)

RECURSIVE RollingGroups(_, _, _, _, _)
RollingGroups(data, keys, window, start, end) ==
    IF keys = <<>> THEN <<>>
    ELSE RollingSequences(data, Head(keys),
            ContiguousSequences(WorkingRows(data, Head(keys), start, end)),
            window, start, end)
         \o RollingGroups(data, Tail(keys), window, start, end)

\* process of stdev_solution.py: an empty frame when there are no results
RollingProcess(data, start, end, window) ==
    LET keys == SelectSeq(EntityOrder,
                    LAMBDA e : WorkingRows(data, e, start, end) # {})
    IN  [start |-> start, end |-> end, status |-> "ok",
         records |-> SortValues(RollingGroups(data, keys, window, start, end))]

(* stdev_solution_b.py: RollingStdevCalculator.process(start_time, end_time) *)

\* the rows of the (security_id, block) group of a row, up to that row: the
\* block id grows wherever the difference to the previous row is not 1 hour
RECURSIVE BlockUpTo(_, _)
BlockUpTo(rows, h) ==
    IF (h - 1) \in rows THEN Append(BlockUpTo(rows, h - 1), h) ELSE <<h>>

\* stdev_bid/mid/ask of a row: rolling(window=20, min_periods=20).std(),
\* whose ddof is 1
AsofStdev(data, security_id, h, price_type) ==
    LET block == BlockUpTo(DOMAIN data[security_id], h)
    IN  RollingAt(data, security_id, block, Len(block), AsofWindow, 1, price_type)

\* the timestamps of the security in stdev_df (dropna)
CompletionPoints(data, security_id) ==
    {h \in DOMAIN data[security_id] :
        /\ AsofStdev(data, security_id, h, "bid") # None
        /\ AsofStdev(data, security_id, h, "mid") # None
        /\ AsofStdev(data, security_id, h, "ask") # None}

\* merge_asof(direction='backward', tolerance=7 days) for one window_df row
AsofRow(data, security_id, ts) ==
    LET eligible == {c \in CompletionPoints(data, security_id) :
                        c <= ts /\ ts - c <= AsofToleranceHours}
    IN  IF eligible = {}
        THEN ResultRow(security_id, ts, None, None, None)
        ELSE LET c == CHOOSE x \in eligible : \A y \in eligible : y <= x
             IN  ResultRow(security_id, ts,
                           AsofStdev(data, security_id, c, "bid"),
                           AsofStdev(data, security_id, c, "mid"),
                           AsofStdev(data, security_id, c, "ask"))

AsofGroup(data, security_id, start, end) ==
    LET ts == SortedSeq({h \in DOMAIN data[security_id] : InRange(h, start, end)})
    IN  [i \in 1..Len(ts) |-> AsofRow(data, security_id, ts[i])]

RECURSIVE AsofGroups(_, _, _, _)
AsofGroups(data, keys, start, end) ==
    IF keys = <<>> THEN <<>>
    ELSE AsofGroup(data, Head(keys), start, end)
         \o AsofGroups(data, Tail(keys), start, end)

\* process of stdev_solution_b.py: one row per snap in [start, end]
AsofProcess(data, start, end) ==
    [start |-> start, end |-> end, status |-> "ok",
     records |-> SortValues(AsofGroups(data, EntityOrder, start, end))]

----------------------------------------------------------------------------
(* Initial states: the price files on disk and the engine's parameters *)

\* the rows of one security at the recent hours: any subset of the hours,
\* with any of the given prices
StreamsOver(prices) == UNION {[S -> prices] : S \in SUBSET RecentHours}

\* rows older than every lookback start but the earliest ones
OldStream == [h \in OldHours |-> Quote(9, 10, 11)]

\* a second security
StreamB ==
    [h \in {LookbackHours, LookbackHours + 1, LookbackHours + 2} |->
        IF h = LookbackHours + 1 THEN Quote(9, 13, 17) ELSE Quote(9, 10, 11)]

DataFile(a, b) == [e \in Entities |-> IF e = "A" THEN a ELSE b]

\* one security with recent rows alone, or with old rows before them, or
\* next to a second security
DataSets ==
    {DataFile(recent, <<>>) : recent \in StreamsOver(Prices)}
    \cup {DataFile(OldStream @@ recent, <<>>) :
             recent \in StreamsOver({Quote(9, 10, 11)})}
    \cup {DataFile(recent, StreamB) :
             recent \in StreamsOver({Quote(9, 13, 17)})}

\* no RatesPriceConverter: the engines of the standard deviation run alone
NoRatesFiles == [ccy |-> <<>>, price |-> <<>>, spot |-> {}]

NoConverter == [ccy_df |-> None, price_df |-> None, spot_df |-> None]

RatesIdle ==
    /\ rates_files = NoRatesFiles
    /\ converter = NoConverter
    /\ converted = None

NoRun == [path |-> "", from |-> None] @@ NoResult
NoCall ==
    [security_id |-> "", price_type |-> "", value |-> 0, ts |-> 0,
     before |-> InitialState, stdevs |-> <<>>]

Init ==
    /\ price_files \in {[p \in {"prices"} |-> d] : d \in DataSets}
    /\ state_file = NoFile
    /\ window_size \in 2..MaxWindow
    /\ pc = "new"
    /\ price_path = "prices"
    /\ df = <<>>
    /\ calculation_state = <<>>
    /\ result = NoRun
    /\ last_call = NoCall
    /\ input_hours = RecentHours
    /\ file_src = None
    /\ state_src = None
    /\ RatesIdle

----------------------------------------------------------------------------
(* Operations *)

\* IncrementalStdevCalculator(price_path, window_size, state_path): a new
\* engine object; the window size is the same for every engine of a run
Construct(path) ==
    /\ price_path' = path
    /\ pc' = "new"
    /\ df' = <<>>
    /\ calculation_state' = <<>>
    /\ state_src' = None
    /\ result' = NoRun
    /\ UNCHANGED rates_vars
    /\ UNCHANGED <<price_files, state_file, window_size, last_call, input_hours,
                   file_src>>

\* load_data: reads and sorts the price file, then loads the snapshot when
\* the state file exists and starts from no state when it does not; when it
\* raises the engine is left at "raised" and is not used further
LoadData ==
    /\ df' = price_files[price_path]
    /\ calculation_state' = LoadedState(state_file)
    /\ state_src' = IF state_file # NoFile /\ Parseable(state_file)
                    THEN file_src ELSE None
    /\ pc' = IF LoadRaises(state_file) THEN "raised" ELSE "loaded"
    /\ UNCHANGED rates_vars
    /\ UNCHANGED <<price_files, state_file, window_size, price_path, result,
                   last_call, input_hours, file_src>>

\* process(start_time, end_time): folds every row from the lookback start
\* on into the state, writes the snapshot, returns the rows in range
Process(start, end) ==
    /\ pc = "loaded"
    /\ \E run \in {IncrementalProcess(calculation_state, window_size, df, start, end)} :
           /\ calculation_state' = run.calculation_state
           /\ state_file' = Some(Written(Serialize(run.calculation_state)))
           /\ result' = [path |-> price_path, from |-> state_src] @@ run.returned
    /\ state_src' = Some(price_path)
    /\ file_src' = Some(price_path)
    /\ UNCHANGED rates_vars
    /\ UNCHANGED <<price_files, window_size, pc, price_path, df, last_call,
                   input_hours>>

Next ==
    \/ \E path \in DOMAIN price_files : Construct(path)
    \/ LoadData
    \/ \E start \in input_hours, end \in input_hours :
          start <= end /\ Process(start, end)

Spec == Init /\ [][Next]_vars

----------------------------------------------------------------------------
(* The engine fed one sample at a time: _update_state called with arrays  *)
(* of length one, from a cold start.                                      *)

StepValues == {10, 13}

InitStep ==
    /\ price_files = [p \in {"prices"} |-> DataFile(<<>>, <<>>)]
    /\ state_file = NoFile
    /\ window_size \in 2..MaxWindow
    /\ pc = "loaded"
    /\ price_path = "prices"
    /\ df = DataFile(<<>>, <<>>)
    /\ calculation_state = <<>>
    /\ result = NoRun
    /\ last_call = NoCall
    /\ input_hours = RecentHours
    /\ file_src = None
    /\ state_src = None
    /\ RatesIdle

UpdateStateCall(security_id, price_type, value, ts) ==
    LET key == _get_state_key(security_id, price_type)
        out == _update_state(calculation_state, window_size, security_id,
                             price_type, <<value>>, <<ts>>)
    IN  /\ calculation_state' = out.calculation_state
        /\ last_call' =
              [security_id |-> security_id, price_type |-> price_type,
               value |-> value, ts |-> ts,
               before |-> IF key \in DOMAIN calculation_state
                          THEN calculation_state[key] ELSE InitialState,
               stdevs |-> out.stdevs]
        /\ UNCHANGED rates_vars
        /\ UNCHANGED <<price_files, state_file, window_size, pc, price_path,
                       df, result, input_hours, file_src, state_src>>

NextStep ==
    \E security_id \in {"A"}, price_type \in {"mid"},
       value \in StepValues, ts \in input_hours :
        UpdateStateCall(security_id, price_type, value, ts)

SpecStep == InitStep /\ [][NextStep]_vars

----------------------------------------------------------------------------
(* One continuous stream of a security cut into two price files, "first"  *)
(* and "second": the engines of a run share the state file, as the two    *)
(* calculators of test_state_persistence do.                              *)

\* the rows of stream at the hours of S
Part(stream, S) == [h \in S |-> stream[h]]

\* the two halves of a stream over the recent hours, cut after its p-th hour
SplitFiles(stream, p) ==
    [path \in {"first", "second"} |->
        DataFile(Part(stream, IF path = "first"
                              THEN LookbackHours .. (LookbackHours + p - 1)
                              ELSE (LookbackHours + p) .. (LookbackHours + MaxHour)),
                 <<>>)]

InitResume ==
    /\ price_files \in {SplitFiles(stream, p) :
                           stream \in [RecentHours -> Prices], p \in 1..MaxHour}
    /\ state_file = NoFile
    /\ window_size \in 2..MaxWindow
    /\ pc = "new"
    /\ price_path = "first"
    /\ df = <<>>
    /\ calculation_state = <<>>
    /\ result = NoRun
    /\ last_call = NoCall
    /\ input_hours = RecentHours
    /\ file_src = None
    /\ state_src = None
    /\ RatesIdle

SpecResume == InitResume /\ [][Next]_vars

----------------------------------------------------------------------------
(* The state file between two engines: the second engine may be given     *)
(* another window size than the one that wrote the snapshot, and the file *)
(* may be damaged before it is loaded.                                    *)

\* an entry without one of its fields
Without(entry, field) == [f \in DOMAIN entry \ {field} |-> entry[f]]

\* what a written state file can become: unreadable, not parseable, or
\* parseable with one entry short of one field
Damaged(file) ==
    {[readable |-> FALSE, json |-> file.json],
     [readable |-> TRUE, json |-> None]}
    \cup {Written([file.json[1] EXCEPT ![k] = Without(file.json[1][k], field)]) :
             k \in DOMAIN file.json[1], field \in Fields}

\* a stream flat but, possibly, for its last row
SnapshotStreams ==
    {[h \in RecentHours |-> IF h = LookbackHours + MaxHour THEN q
                            ELSE Quote(9, 10, 11)] : q \in Prices}

InitSnapshot ==
    /\ price_files \in {SplitFiles(stream, p) :
                           stream \in SnapshotStreams, p \in 1..MaxHour}
    /\ state_file = NoFile
    /\ window_size \in 2..MaxWindow
    /\ pc = "new"
    /\ price_path = "first"
    /\ df = <<>>
    /\ calculation_state = <<>>
    /\ result = NoRun
    /\ last_call = NoCall
    /\ input_hours = RecentHours
    /\ file_src = None
    /\ state_src = None
    /\ RatesIdle

\* IncrementalStdevCalculator(price_path, window_size, state_path) with a
\* window size of its own
ConstructWindow(path, W) ==
    /\ price_path' = path
    /\ window_size' = W
    /\ pc' = "new"
    /\ df' = <<>>
    /\ calculation_state' = <<>>
    /\ state_src' = None
    /\ result' = NoRun
    /\ UNCHANGED rates_vars
    /\ UNCHANGED <<price_files, state_file, last_call, input_hours, file_src>>

\* the state file is damaged while no engine is reading or writing it
DamageSnapshot ==
    /\ state_file # NoFile
    /\ Parseable(state_file)
    /\ ~LoadRaises(state_file)
    /\ state_file' \in {Some(file) : file \in Damaged(state_file[1])}
    /\ UNCHANGED rates_vars
    /\ UNCHANGED <<price_files, window_size, pc, price_path, df,
                   calculation_state, result, last_call, input_hours,
                   file_src, state_src>>

NextSnapshot ==
    \/ \E path \in DOMAIN price_files, W \in 2..MaxWindow : ConstructWindow(path, W)
    \/ LoadData
    \/ \E start \in input_hours, end \in input_hours :
          start <= end /\ Process(start, end)
    \/ DamageSnapshot

SpecSnapshot == InitSnapshot /\ [][NextSnapshot]_vars

----------------------------------------------------------------------------
(* _update_state called with arrays of length one on engines that also    *)
(* process the two price files and resume from the state file             *)

\* one stream, flat but for its last row
StepStream ==
    [h \in RecentHours |-> IF h = LookbackHours + MaxHour THEN Quote(9, 13, 17)
                           ELSE Quote(9, 10, 11)]

InitStepResume ==
    /\ price_files \in {SplitFiles(StepStream, MaxHour - 1)}
    /\ state_file = NoFile
    /\ window_size \in 2..MaxWindow
    /\ pc = "new"
    /\ price_path = "first"
    /\ df = <<>>
    /\ calculation_state = <<>>
    /\ result = NoRun
    /\ last_call = NoCall
    /\ input_hours = RecentHours
    /\ file_src = None
    /\ state_src = None
    /\ RatesIdle

\* the runs process the whole range of their file
NextStepResume ==
    \/ \E path \in DOMAIN price_files : Construct(path)
    \/ LoadData
    \/ Process(LookbackHours, LookbackHours + MaxHour)
    \/ pc = "loaded" /\ NextStep

SpecStepResume == InitStepResume /\ [][NextStepResume]_vars

----------------------------------------------------------------------------
(* The incremental engine with the window of stdev_solution_b.py: a block *)
(* of AsofWindow contiguous hours, then any of the hours after it.        *)

AsofBlockHours == LookbackHours .. (LookbackHours + AsofWindow - 1)
AsofTailHours ==
    (LookbackHours + AsofWindow) .. (LookbackHours + AsofWindow + MaxHour - 1)

\* a full block, flat but for its first row, and the rows after it
AsofStreams ==
    {[h \in AsofBlockHours |-> IF h = LookbackHours THEN q ELSE Quote(9, 10, 11)]
        @@ tail :
        q \in Prices,
        tail \in UNION {[S -> Prices] : S \in SUBSET AsofTailHours}}

InitAsof ==
    /\ price_files \in {[p \in {"prices"} |-> DataFile(a, <<>>)] : a \in AsofStreams}
    /\ state_file = NoFile
    /\ window_size = AsofWindow
    /\ pc = "new"
    /\ price_path = "prices"
    /\ df = <<>>
    /\ calculation_state = <<>>
    /\ result = NoRun
    /\ last_call = NoCall
    /\ input_hours = {LookbackHours + AsofWindow - 1} \cup AsofTailHours
    /\ file_src = None
    /\ state_src = None
    /\ RatesIdle

SpecAsof == InitAsof /\ [][Next]_vars

----------------------------------------------------------------------------
(* The sums of _update_state in binary floating point.  The format has    *)
(* Precision significand bits, round-to-nearest-even and no exponent      *)
(* bounds, as float64 has away from overflow and underflow.  The samples  *)
(* are integers of exactly Precision bits; every number the engine forms  *)
(* from them is then a multiple of 1/Unit, and a float x is carried as    *)
(* the integer x * Unit.                                                  *)

Unit == 2 ^ (Precision - 2)

Abs(n) == IF n < 0 THEN 0 - n ELSE n

RECURSIVE BitLength(_)
BitLength(n) == IF n = 0 THEN 0 ELSE 1 + BitLength(n \div 2)

\* the bits of |n| the format cannot hold
DroppedBits(n) == Max(0, BitLength(Abs(n)) - Precision)

\* the float nearest to the integer n, ties to the even significand
RoundNearest(n) ==
    LET q  == 2 ^ DroppedBits(n)
        hi == Abs(n) \div q
        lo == Abs(n) % q
        m  == IF 2 * lo > q \/ (2 * lo = q /\ hi % 2 = 1) THEN hi + 1 ELSE hi
    IN  IF n < 0 THEN 0 - m * q ELSE m * q

\* the floats next to n >= 0 on either side (n itself when it is a float)
RoundDown(n) == (n \div (2 ^ DroppedBits(n))) * (2 ^ DroppedBits(n))
RoundUp(n) == IF RoundDown(n) = n THEN n ELSE RoundDown(n) + 2 ^ DroppedBits(n)

\* a + b, a - b and a * b of two floats
FloatAdd(a, b) == RoundNearest(a + b)
FloatSub(a, b) == RoundNearest(a - b)
FloatMul(a, b) == RoundNearest(a * b) \div Unit

\* a / W for a float a and the integer W: the quotient is rounded once; the
\* last bit of 8a/W is kept sticky
FloatDiv(a, W) ==
    RoundNearest(2 * ((4 * a) \div W) + (IF (4 * a) % W = 0 THEN 0 ELSE 1)) \div 8

\* x ** 2: pow is accurate to one unit in the last place, so it returns
\* one of the two floats next to the exact square
PowOutcomes(x) == {RoundDown(x * x) \div Unit, RoundUp(x * x) \div Unit}

\* "Update running sums"
FloatPush(state, value, ts) ==
    [values         |-> Append(state.values, value),
     timestamps     |-> Append(state.timestamps, ts),
     sum            |-> FloatAdd(state.sum, value),
     sum_sq         |-> FloatAdd(state.sum_sq, FloatMul(value, value)),
     last_timestamp |-> Some(ts)]

\* "Remove oldest value if window is full"
FloatEvictOldest(state, W) ==
    IF Len(state.values) > W
    THEN [state EXCEPT !.values = Tail(state.values),
                       !.timestamps = Tail(state.timestamps),
                       !.sum = FloatSub(state.sum, Head(state.values)),
                       !.sum_sq = FloatSub(state.sum_sq,
                                           FloatMul(Head(state.values),
                                                    Head(state.values)))]
    ELSE state

\* max(0, sum_sq / W - (sum / W)**2), where square is what ** 2 returned
FloatVariance(state, W, square) ==
    Max(0, FloatSub(FloatDiv(state.sum_sq, W), square))

\* the state after one sample
FloatStepState(state, W, value, ts) ==
    FloatEvictOldest(FloatPush(BeforePush(state, ts), value, ts), W)

\* the samples: floats with all Precision bits in use
FloatValues ==
    {m * Unit : m \in {2 ^ (Precision - 1), 2 ^ (Precision - 1) + 6,
                       2 ^ Precision - 3, 2 ^ Precision - 1}}

InitFloat ==
    /\ price_files = [p \in {"prices"} |-> DataFile(<<>>, <<>>)]
    /\ state_file = NoFile
    /\ window_size \in 2..MaxWindow
    /\ pc = "loaded"
    /\ price_path = "prices"
    /\ df = DataFile(<<>>, <<>>)
    /\ calculation_state = <<>>
    /\ result = NoRun
    /\ last_call = NoCall
    /\ input_hours = RecentHours
    /\ file_src = None
    /\ state_src = None
    /\ RatesIdle

\* _update_state with one sample, the sums in floating point
FloatUpdateStateCall(security_id, price_type, value, ts) ==
    \E key \in {_get_state_key(security_id, price_type)} :
    \E before \in {StateOf(calculation_state, key)} :
    \E state \in {FloatStepState(before, window_size, value, ts)} :
    \E square \in PowOutcomes(FloatDiv(state.sum, window_size)) :
        /\ calculation_state' = (key :> state)
        /\ last_call' =
              [security_id |-> security_id, price_type |-> price_type,
               value |-> value, ts |-> ts, before |-> before,
               stdevs |-> <<IF Len(state.values) = window_size
                            THEN FloatVariance(state, window_size, square)
                            ELSE None>>]
        /\ UNCHANGED rates_vars
        /\ UNCHANGED <<price_files, state_file, window_size, pc, price_path,
                       df, result, input_hours, file_src, state_src>>

NextFloat ==
    \E value \in FloatValues, ts \in input_hours :
        FloatUpdateStateCall("A", "mid", value, ts)

SpecFloat == InitFloat /\ [][NextFloat]_vars

----------------------------------------------------------------------------
(* RatesPriceConverter of rates_test/scripts/rates_solution.py (SpecRates)  *)
(* Its timestamps are counted in minutes.  A price is an exact fraction     *)
(* <<numerator, denominator>>; NaN is None.                                 *)

MaxRows == 2

MaxSpots == 2

\* the hour of the validity test, 3600 seconds
HourMinutes == 60

Pairs == {"EUR/USD", "JPY/USD"}

PriceTimes == {40, 100}

SpotTimes == {0, 40, 90}

PriceValues == {12}

SpotRates == {1, 2}

ConversionFactors == {2}

\* rates_ccy_data.csv: one row for some of the pairs
CcyTables ==
    UNION {[ps -> [convert_price : BOOLEAN,
                   conversion_factor : ConversionFactors]] : ps \in SUBSET Pairs}

PriceRows == [ccy_pair : Pairs, timestamp : PriceTimes, price : PriceValues]

SpotRows == [ccy_pair : Pairs, timestamp : SpotTimes, spot_mid_rate : SpotRates]

\* the price files: up to MaxRows rows in the order of the file
PriceTables == UNION {[1..n -> PriceRows] : n \in 0..MaxRows}

\* the spot files: up to MaxSpots rows
SpotTables == {s \in SUBSET SpotRows : Cardinality(s) <= MaxSpots}

\* groupby(['ccy_pair', 'timestamp']).cumcount() + 1 of row i
CumCount(rows, i) ==
    Cardinality({j \in 1..i : /\ rows[j].ccy_pair = rows[i].ccy_pair
                              /\ rows[j].timestamp = rows[i].timestamp})

\* the columns the left merge with ccy_df adds to a price row, NaN for a
\* pair ccy_df has no row for; row_id; and the first new_price and reason
MergedRow(rows, ccy, i) ==
    [ccy_pair          |-> rows[i].ccy_pair,
     timestamp         |-> rows[i].timestamp,
     price             |-> rows[i].price,
     convert_price     |-> IF rows[i].ccy_pair \in DOMAIN ccy
                           THEN Some(ccy[rows[i].ccy_pair].convert_price)
                           ELSE None,
     conversion_factor |-> IF rows[i].ccy_pair \in DOMAIN ccy
                           THEN Some(ccy[rows[i].ccy_pair].conversion_factor)
                           ELSE None,
     row_id            |-> <<rows[i].ccy_pair, rows[i].timestamp,
                             CumCount(rows, i)>>,
     new_price         |-> Some(Frac(rows[i].price, 1)),
     reason            |-> "no conversion required"]

_prepare_merged_data(rows, ccy) ==
    [i \in 1..Len(rows) |-> MergedRow(rows, ccy, i)]

\* a mutation of ConversionNeeded: every row is converted
EveryRow(merged) == 1..Len(merged)

\* merged[merged['convert_price'] == True]
ConversionNeeded(merged) ==
    {i \in 1..Len(merged) : merged[i].convert_price = Some(TRUE)}

\* the rows of spot_df merge_asof(by='ccy_pair', direction='backward') looks
\* at for a row: those of its pair at or before its timestamp
SpotsBefore(spots, row) ==
    {s \in spots : /\ s.ccy_pair = row.ccy_pair
                   /\ s.timestamp <= row.timestamp}

\* the spot rows merge_asof can match: the latest of SpotsBefore (one of
\* them where several carry the latest timestamp: sort_values is not a
\* stable sort), None where there is none
_get_spot_rates(spots, row) ==
    IF SpotsBefore(spots, row) = {}
    THEN {None}
    ELSE {Some(s) : s \in {t \in SpotsBefore(spots, row) :
                              \A u \in SpotsBefore(spots, row) :
                                  u.timestamp <= t.timestamp}}

\* timestamp.dt.floor('h')
FloorHour(ts) == ts - (ts % HourMinutes)

\* (timestamp - timestamp.dt.floor('h')).dt.total_seconds() <= 3600
is_valid(row) == row.timestamp - FloorHour(row.timestamp) <= HourMinutes

\* price / conversion_factor + spot_mid_rate, NaN where one of them is
ConversionFormula(price, conversion_factor, spot) ==
    IF conversion_factor = None \/ spot = None
    THEN None
    ELSE Some(Frac(price + spot[1].spot_mid_rate * conversion_factor[1],
                   conversion_factor[1]))

\* a row of conversion_window after _apply_conversions
_apply_conversions(row, spot) ==
    IF is_valid(row)
    THEN [row EXCEPT !.new_price = ConversionFormula(row.price,
                                                     row.conversion_factor,
                                                     spot),
                     !.reason = "converted"]
    ELSE [row EXCEPT !.new_price = None,
                     !.reason = "no spot_mid_rate in previous hour"]

\* merged[['ccy_pair', 'timestamp', 'price', 'new_price', 'reason']]
OutputRow(row) ==
    [ccy_pair  |-> row.ccy_pair,
     timestamp |-> row.timestamp,
     price     |-> row.price,
     new_price |-> row.new_price,
     reason    |-> row.reason]

\* process() of the converter, the spot row matched[i] joined to row i
ConvertRows(merged, needed, matched) ==
    [i \in 1..Len(merged) |->
        OutputRow(IF i \in needed
                  THEN _apply_conversions(merged[i], matched[i])
                  ELSE merged[i])]

InitRates ==
    /\ rates_files \in [ccy : CcyTables, price : PriceTables, spot : SpotTables]
    /\ converter = NoConverter
    /\ converted = None
    /\ price_files = [path \in {"first"} |-> <<>>]
    /\ state_file = NoFile
    /\ window_size = MaxWindow
    /\ pc = "new"
    /\ price_path = "first"
    /\ df = <<>>
    /\ calculation_state = <<>>
    /\ result = NoRun
    /\ last_call = NoCall
    /\ input_hours = {}
    /\ file_src = None
    /\ state_src = None

\* RatesPriceConverter.load_data
RatesLoadData ==
    /\ converter' = [ccy_df   |-> Some(rates_files.ccy),
                     price_df |-> Some(rates_files.price),
                     spot_df  |-> Some(rates_files.spot)]
    /\ converted' = None
    /\ UNCHANGED rates_files
    /\ UNCHANGED stdev_vars

\* RatesPriceConverter.process
RatesProcess ==
    /\ converter.price_df # None
    /\ \E merged \in {_prepare_merged_data(converter.price_df[1],
                                           converter.ccy_df[1])} :
         \E matched \in [1..Len(merged) -> {None} \cup
                            {Some(s) : s \in converter.spot_df[1]}] :
            /\ \A i \in 1..Len(merged) :
                   matched[i] \in _get_spot_rates(converter.spot_df[1], merged[i])
            /\ converted' = Some(ConvertRows(merged, ConversionNeeded(merged),
                                             matched))
    /\ UNCHANGED <<rates_files, converter>>
    /\ UNCHANGED stdev_vars

NextRates ==
    \/ RatesLoadData
    \/ RatesProcess

SpecRates == InitRates /\ [][NextRates]_vars

----------------------------------------------------------------------------
(* Claims about the rows process returns *)

\* the rows of the price file the last run of process read, for a security
RowsOf(security_id) == DOMAIN price_files[result.path][security_id]

\* the last W rows of the security ending at ts are one hour apart
FullWindowAt(security_id, ts, W) ==
    \A k \in 0..(W - 1) : (ts - k) \in RowsOf(security_id)

HasStdevs(row) ==
    row.bid_stdev # None /\ row.mid_stdev # None /\ row.ask_stdev # None

\* C1 (as claimed): a result row exists for (entity, t) only if the entity
\* has window_size samples ending at t that are pairwise one hour apart;
\* for a sample with fewer contiguous predecessors no row at all is returned.
C1_NoPartialWindow ==
    \A i \in 1..Len(result.records) :
        FullWindowAt(result.records[i].security_id,
                     result.records[i].timestamp, window_size)

\* g is the first sample of the security after a gap
FirstAfterGap(security_id, g) ==
    /\ g \in RowsOf(security_id)
    /\ (g - 1) \notin RowsOf(security_id)
    /\ \E p \in RowsOf(security_id) : p < g

\* C2 (as claimed): after a gap the first row returned is no earlier than
\* the window_size-th sample after the gap (no row at the samples before
\* it), and no statistic is computed from a window reaching across the gap.
C2_GapReset ==
    \A i \in 1..Len(result.records) :
        LET row == result.records[i]
        IN  \A g \in RowsOf(row.security_id) :
                (FirstAfterGap(row.security_id, g) /\ g <= row.timestamp)
                => /\ Cardinality({x \in RowsOf(row.security_id) :
                                     g <= x /\ x <= row.timestamp}) >= window_size
                   /\ row.timestamp - (window_size - 1) >= g

\* C3 (as claimed): started cold, the incremental engine and the
\* groupby+rolling engine of stdev_solution.py return the same keys and the
\* same statistics for the same file, window and range.
C3_RollingEquivalence ==
    (result.status # "none" /\ result.from = None)
    => result.records =
         RollingProcess(price_files[result.path], result.start, result.end,
                        window_size).records

\* the scenario of C9: window 3, entity A at four consecutive hours with
\* mid = 10, 10, 10, 13, processed cold over exactly these hours
ScenarioStream ==
    [h \in LookbackHours..(LookbackHours + 3) |->
        IF h = LookbackHours + 3 THEN Quote(9, 13, 17) ELSE Quote(9, 10, 11)]

InScenario ==
    /\ window_size = 3
    /\ result.status # "none"
    /\ result.from = None
    /\ price_files[result.path] = DataFile(ScenarioStream, <<>>)
    /\ result.start = LookbackHours
    /\ result.end = LookbackHours + 3

\* C9 (as claimed): in the scenario no row is returned for hours 0 and 1, a
\* row with mid variance 0 for hour 2 and a row with mid variance 2 for hour 3.
C9_Scenario ==
    InScenario
    => /\ Len(result.records) = 2
       /\ result.records[1].timestamp = LookbackHours + 2
       /\ result.records[1].mid_stdev = <<0, 1>>
       /\ result.records[2].timestamp = LookbackHours + 3
       /\ result.records[2].mid_stdev = <<2, 1>>

\* what stdev_solution.py returns for the file, window and range of the last run
RollingOfRun ==
    RollingProcess(price_files[result.path], result.start, result.end, window_size)

\* C7: every row process returns, in the incremental engine and in the
\* groupby+rolling engine, has start <= timestamp <= end.
C7_ReportingRange ==
    result.status # "none"
    => /\ \A i \in 1..Len(result.records) :
            /\ result.start <= result.records[i].timestamp
            /\ result.records[i].timestamp <= result.end
       /\ \A i \in 1..Len(RollingOfRun.records) :
            /\ result.start <= RollingOfRun.records[i].timestamp
            /\ RollingOfRun.records[i].timestamp <= result.end

\* C7 witness: both engines returned rows although the security has a
\* processed row before start and a row after end.
C7_Witness ==
    /\ result.status = "ok"
    /\ RollingOfRun.records # <<>>
    /\ \E h \in RowsOf("A") : h < result.start /\ h >= result.start - LookbackHours
    /\ \E h \in RowsOf("A") : h > result.end

\* a row with statistics is returned for (security_id, ts)
Reported(records, security_id, ts) ==
    \E i \in 1..Len(records) :
        /\ records[i].security_id = security_id
        /\ records[i].timestamp = ts
        /\ HasStdevs(records[i])

\* the two files hold the same rows from hour `from` on
SameRowsFrom(d1, d2, from) ==
    \A e \in Entities :
        /\ {h \in DOMAIN d1[e] : h >= from} = {h \in DOMAIN d2[e] : h >= from}
        /\ \A h \in DOMAIN d1[e] : h >= from => d1[e][h] = d2[e][h]

\* C8: a sample in [start, end] whose window_size - 1 predecessors exist at
\* one-hour spacing, none older than start minus the lookback, gets a row
\* with statistics in both engines, also when predecessors lie before start;
\* and when the lookback is at least window_size - 1 hours, the rows returned
\* are those of any file with the same rows from start minus the lookback on.
C8_LookbackSeeding ==
    result.status # "none"
    => /\ \A e \in Entities : \A t \in RowsOf(e) :
            ( /\ result.start <= t /\ t <= result.end
              /\ \A k \in 1..(window_size - 1) :
                    /\ (t - k) \in RowsOf(e)
                    /\ t - k >= result.start - LookbackHours )
            => /\ Reported(result.records, e, t)
               /\ Reported(RollingOfRun.records, e, t)
       /\ LookbackHours >= window_size - 1
          => \A d \in DataSets :
                SameRowsFrom(d, price_files[result.path],
                             result.start - LookbackHours)
                => /\ IncrementalProcess(<<>>, window_size, d, result.start,
                                         result.end).returned.records
                      = result.records
                   /\ RollingProcess(d, result.start, result.end,
                                     window_size).records
                      = RollingOfRun.records

\* C8 witness: the row at start has statistics, so its predecessors lie
\* before start, and the file holds rows older than the lookback start.
C8_Witness ==
    /\ result.status = "ok"
    /\ Reported(result.records, "A", result.start)
    /\ \E h \in RowsOf("A") : h < result.start - LookbackHours

\* no security has a row in [start, end] that ends window_size contiguous rows
NoFullWindowInRange ==
    \A e \in Entities : \A t \in RowsOf(e) :
        (result.start <= t /\ t <= result.end) => ~FullWindowAt(e, t, window_size)

\* C13 (as claimed): when no security reaches a full window inside
\* [start, end], also when no row lies inside it, process does not raise and
\* returns no rows, in the incremental engine and in stdev_solution.py.
C13_InsufficientHistory ==
    (result.status # "none" /\ NoFullWindowInRange)
    => /\ result.status = "ok"
       /\ result.records = <<>>
       /\ RollingOfRun.status = "ok"
       /\ RollingOfRun.records = <<>>

----------------------------------------------------------------------------
(* Claims about one sample folded into one key (SpecStep) *)

LastKey == _get_state_key(last_call.security_id, last_call.price_type)

\* the last call fed a sample one hour after the previous one into a full window
SlidFullWindow ==
    /\ last_call.stdevs # <<>>
    /\ Len(last_call.before.values) = window_size
    /\ last_call.before.last_timestamp # None
    /\ last_call.ts = last_call.before.last_timestamp[1] + 1

\* C6: a sample arriving one hour after the previous one into a window of
\* window_size samples evicts exactly the oldest sample, leaves window_size
\* samples and yields a statistic for that sample.
C6_FullWindowCompleteness ==
    SlidFullWindow
    => LET before == last_call.before
           after  == calculation_state[LastKey]
       IN  /\ after.values = Append(Tail(before.values), last_call.value)
           /\ after.timestamps = Append(Tail(before.timestamps), last_call.ts)
           /\ Len(after.values) = window_size
           /\ after.sum = before.sum - Head(before.values) + last_call.value
           /\ last_call.stdevs # <<None>>

\* C6 witness: a full window slid and the value evicted differs from the
\* value pushed.
C6_Witness ==
    /\ SlidFullWindow
    /\ Head(last_call.before.values) # last_call.value

----------------------------------------------------------------------------
(* Claims about a stream processed in two runs (SpecResume) *)

\* the whole stream in one file
WholeFile ==
    DataFile(price_files["first"]["A"] @@ price_files["second"]["A"], <<>>)

\* the last run read the second half with the state a run over the first
\* half left in the snapshot
Resumed ==
    /\ result.status # "none"
    /\ result.path = "second"
    /\ result.from = Some("first")

\* C5: a fresh engine that loads the snapshot of a run over the first half
\* and processes the second half returns, for the timestamps of the second
\* half, exactly the rows one cold run over the whole stream returns for them.
C5_Resumability ==
    Resumed
    => result.records =
         SelectSeq(IncrementalProcess(<<>>, window_size, WholeFile, result.start,
                                      result.end).returned.records,
                   LAMBDA row : row.timestamp \in DOMAIN price_files["second"]["A"])

\* C5 witness: the resumed run returned statistics at the first sample of the
\* second half, whose window lies in the first half but for that sample.
C5_Witness ==
    /\ Resumed
    /\ \E i \in 1..Len(result.records) :
          /\ HasStdevs(result.records[i])
          /\ result.records[i].timestamp \in DOMAIN price_files["second"]["A"]
          /\ (result.records[i].timestamp - 1) \in DOMAIN price_files["first"]["A"]

----------------------------------------------------------------------------
(* Claims about the as-of engine of stdev_solution_b.py (SpecAsof) *)

\* what stdev_solution_b.py returns for the file and range of the last run
AsofOfRun == AsofProcess(price_files[result.path], result.start, result.end)

\* the row of (security_id, ts) in records, None when there is none
RowAt(records, security_id, ts) ==
    LET found == SelectSeq(records, LAMBDA row : /\ row.security_id = security_id
                                                  /\ row.timestamp = ts)
    IN  IF found = <<>> THEN None ELSE Some(found[1])

\* C4 (as claimed): run cold with the window of the as-of engine, the
\* incremental engine and the as-of engine report statistics at the same
\* keys, the same statistics where both report, and the as-of engine reports
\* at t only the statistic of a window of contiguous samples ending at t.
C4_AsofEquivalence ==
    (result.status # "none" /\ result.from = None)
    => \A e \in Entities : \A t \in RowsOf(e) :
          /\ Reported(result.records, e, t) <=> Reported(AsofOfRun.records, e, t)
          /\ (Reported(result.records, e, t) /\ Reported(AsofOfRun.records, e, t))
             => /\ RowAt(result.records, e, t)[1].bid_stdev
                     = RowAt(AsofOfRun.records, e, t)[1].bid_stdev
                /\ RowAt(result.records, e, t)[1].mid_stdev
                     = RowAt(AsofOfRun.records, e, t)[1].mid_stdev
                /\ RowAt(result.records, e, t)[1].ask_stdev
                     = RowAt(AsofOfRun.records, e, t)[1].ask_stdev
          /\ Reported(AsofOfRun.records, e, t) => FullWindowAt(e, t, window_size)

----------------------------------------------------------------------------
(* Claims about the sums in floating point (SpecFloat) *)

\* the window of the key is full of one and the same value
FullOfOneValue ==
    /\ LastKey \in DOMAIN calculation_state
    /\ Len(calculation_state[LastKey].values) = window_size
    /\ \A i \in 1..window_size :
          calculation_state[LastKey].values[i] = calculation_state[LastKey].values[1]

\* C10 (as claimed): whenever the window is full of window_size identical
\* values, reached by filling or by sliding, the variance the call computed
\* is exactly 0.
C10_ZeroVariance ==
    (last_call.stdevs # <<>> /\ FullOfOneValue) => last_call.stdevs[1] = 0

\* the statistic of stdev_solution.py at the key of a row of the last run
RollingValue(row, price_type) ==
    LET found == RowAt(RollingOfRun.records, row.security_id, row.timestamp)
    IN  IF found = None THEN None
        ELSE found[1][price_type \o "_stdev"]

\* the statistic stdev_solution_b.py computes at the row itself: the rolling
\* value of its block, before the as-of join
AsofValue(row, price_type) ==
    AsofStdev(price_files[result.path], row.security_id, row.timestamp, price_type)

\* C14 (as claimed): where the incremental engine, run cold, has a full
\* window, the statistic of stdev_solution.py and the statistic of
\* stdev_solution_b.py over the same window_size samples are the value
\* max(0, sum_sq/n - (sum/n)^2) the incremental engine computed from them.
C14_SameFormula ==
    (result.status = "ok" /\ result.from = None)
    => \A i \in 1..Len(result.records) :
          HasStdevs(result.records[i])
          => \A p \in 1..Len(PriceTypes) :
                /\ RollingValue(result.records[i], PriceTypes[p])
                     = result.records[i][PriceTypes[p] \o "_stdev"]
                /\ AsofValue(result.records[i], PriceTypes[p])
                     = result.records[i][PriceTypes[p] \o "_stdev"]

----------------------------------------------------------------------------
(* Claims about the keys of the calculation state *)

\* the state keys of a security
KeysOf(security_id) ==
    {_get_state_key(security_id, PriceTypes[i]) : i \in 1..Len(PriceTypes)}

\* the part of a calculation state that belongs to a security
Restrict(cs, security_id) ==
    [k \in DOMAIN cs \cap KeysOf(security_id) |-> cs[k]]

\* the price file without the rows of the other securities
Alone(data, security_id) ==
    [e \in Entities |-> IF e = security_id THEN data[e] ELSE <<>>]

RecordsOf(records, security_id) ==
    SelectSeq(records, LAMBDA row : row.security_id = security_id)

\* security ids that embed the separator and the price types
KeyIds == Entities \cup {"", "_", "A_", "A_bid", "A_mid", "bid", "B_ask_A"}

\* two different (security, price type) pairs have different keys
KeysDistinct ==
    \A s1 \in KeyIds, s2 \in KeyIds :
        \A i \in 1..Len(PriceTypes), j \in 1..Len(PriceTypes) :
            _get_state_key(s1, PriceTypes[i]) = _get_state_key(s2, PriceTypes[j])
            => s1 = s2 /\ i = j

\* what a run of process over [start, end] does to one security is what it
\* does when the file holds that security alone and the state its keys alone
IsolatedRun(start, end) ==
    \A e \in Entities :
        LET alone == IncrementalProcess(Restrict(calculation_state, e),
                                        window_size, Alone(df, e), start, end)
        IN  /\ Restrict(calculation_state', e) = alone.calculation_state
            /\ RecordsOf(result'.records, e) = alone.returned.records

\* C11: the keys of different (security, price type) pairs differ, and every
\* run of process leaves for each security the state and the rows it leaves
\* with the other securities absent from the file and from the state.
C11_EntityIsolation ==
    [][/\ KeysDistinct
       /\ Process(result'.start, result'.end)
          => IsolatedRun(result'.start, result'.end)]_vars

\* C11 witness: a run over a file with two securities returned statistics
\* for both of them.
C11_Witness ==
    /\ result.status = "ok"
    /\ \E t \in RowsOf("A") : Reported(result.records, "A", t)
    /\ \E t \in RowsOf("B") : Reported(result.records, "B", t)

----------------------------------------------------------------------------
(* Claims about the state file (SpecSnapshot) *)

\* the state file is absent, unreadable, not parseable, or has an entry
\* without one of its fields
NoUsableSnapshot ==
    \/ state_file = NoFile
    \/ ~Parseable(state_file)
    \/ LoadRaises(state_file)

\* C12 (as claimed): load_data on an absent, unreadable, not parseable or
\* corrupted state file does not raise and leaves an empty calculation state.
C12_LoadNeverFatal ==
    [][(LoadData /\ NoUsableSnapshot)
       => (pc' = "loaded" /\ calculation_state' = <<>>)]_vars

\* C15 (as claimed): whatever window size wrote the state file, the window
\* of every key of the engine holds at most window_size samples.
C15_WindowWithinSize ==
    \A key \in DOMAIN calculation_state :
        Len(calculation_state[key]["values"]) <= window_size

----------------------------------------------------------------------------
(* Claims about the RatesPriceConverter (SpecRates) *)

\* the spot rows of the pair of a row at or before its timestamp and no
\* more than one hour before it
SpotsInPrecedingHour(row) ==
    {s \in rates_files.spot :
        /\ s.ccy_pair = row.ccy_pair
        /\ s.timestamp <= row.timestamp
        /\ row.timestamp - s.timestamp <= HourMinutes}

\* the latest of them
LatestInPrecedingHour(row) ==
    {s \in SpotsInPrecedingHour(row) :
        \A u \in SpotsInPrecedingHour(row) : u.timestamp <= s.timestamp}

\* the ccy row of the pair of a price row says convert_price = flag
ConvertPriceIs(row, flag) ==
    /\ row.ccy_pair \in DOMAIN rates_files.ccy
    /\ rates_files.ccy[row.ccy_pair].convert_price = flag

\* C16 (as claimed): a row of a pair with convert_price true is 'converted',
\* with new_price = price / conversion_factor + spot_mid_rate of the latest
\* spot rate of the preceding hour, when there is one; otherwise its reason
\* is 'no spot_mid_rate in previous hour' and its new_price is absent.
C16_SpotFromPrecedingHour ==
    converted # None
    => \A i \in 1..Len(converted[1]) :
          ConvertPriceIs(rates_files.price[i], TRUE)
          => IF SpotsInPrecedingHour(rates_files.price[i]) # {}
             THEN /\ converted[1][i].reason = "converted"
                  /\ \E s \in LatestInPrecedingHour(rates_files.price[i]) :
                        converted[1][i].new_price
                          = Some(Frac(rates_files.price[i].price
                                        + s.spot_mid_rate
                                          * rates_files.ccy[s.ccy_pair].conversion_factor,
                                      rates_files.ccy[s.ccy_pair].conversion_factor))
             ELSE /\ converted[1][i].reason = "no spot_mid_rate in previous hour"
                  /\ converted[1][i].new_price = None

\* C17: process returns one row for each price row, in the order of the
\* file, and a row of a pair with convert_price false has the reason
\* 'no conversion required' and its price as new_price.
C17_PassThrough ==
    converted # None
    => /\ Len(converted[1]) = Len(rates_files.price)
       /\ \A i \in 1..Len(converted[1]) :
             ConvertPriceIs(rates_files.price[i], FALSE)
             => /\ converted[1][i].ccy_pair = rates_files.price[i].ccy_pair
                /\ converted[1][i].timestamp = rates_files.price[i].timestamp
                /\ converted[1][i].price = rates_files.price[i].price
                /\ converted[1][i].reason = "no conversion required"
                /\ converted[1][i].new_price
                     = Some(Frac(rates_files.price[i].price, 1))

\* C17 witness: process returned a row passed through, of a pair that has a
\* spot rate before it, next to a converted row of the other pair.
C17_Witness ==
    /\ converted # None
    /\ \E i, j \in 1..Len(converted[1]) :
          /\ ConvertPriceIs(rates_files.price[i], FALSE)
          /\ SpotsInPrecedingHour(rates_files.price[i]) # {}
          /\ converted[1][i].reason = "no conversion required"
          /\ rates_files.price[j].ccy_pair # rates_files.price[i].ccy_pair
          /\ converted[1][j].reason = "converted"
          /\ converted[1][j].new_price # None
          /\ converted[1][j].new_price # Some(Frac(rates_files.price[j].price, 1))

----------------------------------------------------------------------------
(* Claims about the window and the sums of a key (SpecStep, SpecStepResume) *)

\* consecutive timestamps of a window are one hour apart
Contiguous(timestamps) ==
    \A i \in 1..(Len(timestamps) - 1) : timestamps[i + 1] = timestamps[i] + 1

\* C18: from a cold start, through any sequence of samples, the window of
\* every key is empty or contiguous, holds at most window_size samples, and
\* last_timestamp is the timestamp of its newest sample.
C18_WindowInvariant ==
    \A key \in DOMAIN calculation_state :
        LET state == calculation_state[key]
        IN  /\ Len(state["values"]) = Len(state.timestamps)
            /\ Contiguous(state.timestamps)
            /\ Len(state["values"]) <= window_size
            /\ state.timestamps # <<>>
                 => state.last_timestamp
                      = Some(state.timestamps[Len(state.timestamps)])

\* C18 witness: a full window that began after the first hour was fed the
\* sample one hour after its last, and is full again.
C18_Witness ==
    /\ last_call # NoCall
    /\ Len(last_call.before["values"]) = window_size
    /\ last_call.ts = last_call.before.last_timestamp[1] + 1
    /\ last_call.before.timestamps[1] > LookbackHours
    /\ Len(calculation_state[LastKey]["values"]) = window_size

SumOfSquares(values) == SumSeq([i \in 1..Len(values) |-> values[i] * values[i]])

\* C19: after every sample and after every save and load of the state
\* file, sum is the sum of the values of the window and sum_sq the sum of
\* their squares, for every key.
C19_AccumulatorInvariant ==
    \A key \in DOMAIN calculation_state :
        /\ calculation_state[key].sum = SumSeq(calculation_state[key]["values"])
        /\ calculation_state[key].sum_sq
             = SumOfSquares(calculation_state[key]["values"])

\* C19 witness: an engine that loaded the state file and has not run
\* process since was fed a sample that evicted from its full window.
C19_Witness ==
    /\ state_src # None
    /\ pc = "loaded"
    /\ result = NoRun
    /\ last_call # NoCall
    /\ Len(last_call.before["values"]) = window_size
    /\ last_call.ts = last_call.before.last_timestamp[1] + 1
    /\ calculation_state[LastKey]["values"]
         = Append(Tail(last_call.before["values"]), last_call.value)
    /\ calculation_state[LastKey].sum_sq > 0

\* the call last_call' has just been made, on a state whose last accepted
\* timestamp is not one hour before the sample's
CallAtGap ==
    /\ last_call' # last_call
    /\ last_call'.before.last_timestamp # None
    /\ last_call'.ts - last_call'.before.last_timestamp[1] # 1

\* C20: a sample whose timestamp is not one hour after the last accepted
\* one (later, equal or earlier; the first sample after a resume too) leaves
\* a window of exactly that sample, sum its value and sum_sq its square.
C20_ResetThenAccept ==
    [][CallAtGap
       => calculation_state'[_get_state_key(last_call'.security_id,
                                            last_call'.price_type)]
            = [values         |-> <<last_call'.value>>,
               timestamps     |-> <<last_call'.ts>>,
               sum            |-> last_call'.value,
               sum_sq         |-> last_call'.value * last_call'.value,
               last_timestamp |-> Some(last_call'.ts)]]_vars

\* C20 witness: the first sample fed to an engine resumed from the state
\* file was at or before the last timestamp of the loaded window, which
\* held more than one sample.
C20_Witness ==
    /\ state_src # None
    /\ last_call # NoCall
    /\ Len(last_call.before["values"]) > 1
    /\ last_call.ts <= last_call.before.last_timestamp[1]
    /\ last_call.before = LoadedState(state_file)[LastKey]
    /\ calculation_state[LastKey]["values"] = <<last_call.value>>

----------------------------------------------------------------------------
(* Claims about runs that start from the state of an earlier run *)

\* what an engine with no state returns for the file and range of the last run
ColdRun ==
    IncrementalProcess(<<>>, window_size, price_files[result.path],
                       result.start, result.end).returned

\* C21: process returns what an engine with no state returns for the same
\* file, start and end, whether it started cold, from the state file of an
\* earlier run over the file, or from the state an earlier call left.
C21_StaleSnapshotIndependence ==
    result.status # "none"
    => /\ result.status = ColdRun.status
       /\ result.records = ColdRun.records

\* C21 witness: a run that started from the state of an earlier run over the
\* file, whose windows were not empty, returned a row with statistics.
C21_Witness ==
    /\ result.status = "ok"
    /\ result.from = Some(result.path)
    /\ \E i \in 1..Len(result.records) : HasStdevs(result.records[i])

\* the state the last run saved, as load_data reads it back
SavedState == LoadedState(state_file)

\* C22 (as claimed): after process(start, end) the state saved for every key
\* has last_timestamp <= end and a window of samples with timestamps in
\* [start - 7 days, end]; rows later than end are not folded into it.
C22_SnapshotAtRunBoundary ==
    result.status # "none"
    => \A key \in DOMAIN SavedState :
          /\ SavedState[key].last_timestamp # None
               => SavedState[key].last_timestamp[1] <= result.end
          /\ \A i \in 1..Len(SavedState[key].timestamps) :
                /\ SavedState[key].timestamps[i] >= result.start - LookbackHours
                /\ SavedState[key].timestamps[i] <= result.end

----------------------------------------------------------------------------
(* Claims about the three price types of a security *)

\* the key of a security and a price type in the calculation state
FieldKey(security_id, p) == security_id \o "_" \o PriceTypes[p]

\* the states of two price types of a security are both absent, or both
\* present with the same timestamps and the same last_timestamp
InLockstep(security_id, p, q) ==
    /\ FieldKey(security_id, p) \in DOMAIN calculation_state
         <=> FieldKey(security_id, q) \in DOMAIN calculation_state
    /\ FieldKey(security_id, p) \in DOMAIN calculation_state
         => /\ calculation_state[FieldKey(security_id, p)].timestamps
                 = calculation_state[FieldKey(security_id, q)].timestamps
            /\ calculation_state[FieldKey(security_id, p)].last_timestamp
                 = calculation_state[FieldKey(security_id, q)].last_timestamp

NoStdevs(row) ==
    row.bid_stdev = None /\ row.mid_stdev = None /\ row.ask_stdev = None

\* C23: the bid, mid and ask states of a security have the same timestamps
\* and the same last_timestamp, and the three statistics of a returned row
\* are all present or all absent.
C23_FieldLockstep ==
    /\ \A e \in Entities : \A p, q \in 1..Len(PriceTypes) : InLockstep(e, p, q)
    /\ \A i \in 1..Len(result.records) :
          HasStdevs(result.records[i]) \/ NoStdevs(result.records[i])

\* C23 witness: a run over a security with a gap returned a row with the
\* three statistics and, at the first sample after the gap, a row with none,
\* and left a window that starts after the gap.
C23_Witness ==
    /\ result.status = "ok"
    /\ \E i, j \in 1..Len(result.records) :
          /\ result.records[i].security_id = "A"
          /\ result.records[j].security_id = "A"
          /\ HasStdevs(result.records[i])
          /\ NoStdevs(result.records[j])
          /\ FirstAfterGap("A", result.records[j].timestamp)
    /\ FieldKey("A", 1) \in DOMAIN calculation_state
    /\ \E g \in RowsOf("A") :
          /\ FirstAfterGap("A", g)
          /\ calculation_state[FieldKey("A", 1)].timestamps[1] >= g

====
